---- MODULE Spec2Model ----
(***************************************************************************)
(* Order lifecycle of mcp-bearer-token/mcp_vendor.py: the in-memory order  *)
(* store, the order creation helper, the listing tool and the six          *)
(* lifecycle tools.                                                        *)
(*                                                                         *)
(* The Python dict `orders` is modelled as a sequence of order records in  *)
(* insertion order (a dict keeps the position of a key that is assigned    *)
(* again).  Optional values (None or a value) are sequences of length 0 or *)
(* 1.  f-strings are tuples of their literal parts and formatted values.   *)
(***************************************************************************)
EXTENDS Integers, Sequences, FiniteSets, TLC

VARIABLES orders, clock, last, calls, ncreated

vars == <<orders, clock, last, calls, ncreated>>

(* ---------------------------- bounds ---------------------------------- *)

\* time.time() is observed at whole seconds 1..MaxClock
MaxClock == 2
\* calls of new_order made after the module is imported
MaxNewOrders == 1

(* ------------------------- Optional values ----------------------------- *)

None == <<>>
Some(x) == <<x>>
IsSet(opt) == opt # None

(* ------------------------------ enums ---------------------------------- *)

PENDING == "pending"
ACCEPTED == "accepted"
REJECTED == "rejected"
READY == "ready"
ASSIGNED == "assigned"
DELIVERED == "delivered"
PAID == "paid"
OrderStatus == {PENDING, ACCEPTED, REJECTED, READY, ASSIGNED, DELIVERED, PAID}

UNREQUESTED == "unrequested"
REQUESTED == "requested"
PAYMENT_PAID == "paid"
PaymentStatus == {UNREQUESTED, REQUESTED, PAYMENT_PAID}

(* --------------------------- in-memory data ---------------------------- *)

delivery_agents ==
    <<[id |-> "agent_1", name |-> "Sam", phone |-> "919991112223"],
      [id |-> "agent_2", name |-> "Asha", phone |-> "918881112223"],
      [id |-> "agent_3", name |-> "Raj", phone |-> "917771112223"]>>

\* a lookup that falls back to the first agent instead of None
agents_get_default(agent_id) ==
    LET hit == {i \in 1..Len(delivery_agents) : delivery_agents[i].id = agent_id}
    IN  IF hit = {} THEN Some(delivery_agents[1])
        ELSE Some(delivery_agents[CHOOSE i \in hit : TRUE])

\* delivery_agents.get(agent_id)
agents_get(agent_id) ==
    LET hit == {i \in 1..Len(delivery_agents) : delivery_agents[i].id = agent_id}
    IN  IF hit = {} THEN None ELSE Some(delivery_agents[CHOOSE i \in hit : TRUE])

\* the values str(uuid.uuid4())[:8] takes in the model: nothing makes two
\* draws differ
UuidPrefixes == {"0f3a9c1e", "7b2d4e88"}
\* order ids a tool is called with: an id is unknown to the store when no
\* order is stored under it (the two seed orders may share one id)
OrderIdArgs == UuidPrefixes
AgentIdArgs == {"agent_2", "unknown_agent"}
\* (vendor_id, items) a later new_order is called with
NewOrderArgs == {<<"vendor_1", <<[sku |-> "chai", qty |-> 2]>> >>, <<"vendor_2", <<>> >>}
Callers == {"c1", "c2"}
\* vendor ids orders_list is called with: the seeds' vendor and another one
VendorIdArgs == {"vendor_1", "vendor_2"}
\* status filters orders_list is called with: none, a status, and the word
\* "completed" of the tool description, which no order has as its status
StatusFilterArgs == {None, Some(PENDING), Some("completed")}

(* ---------------------------- utilities -------------------------------- *)

\* position of the key order_id in the dict, 0 when absent
KeyIndex(os, order_id) ==
    LET hit == {i \in 1..Len(os) : os[i].order_id = order_id}
    IN  IF hit = {} THEN 0 ELSE CHOOSE i \in hit : TRUE

\* orders.get(order_id)
get_order(os, order_id) ==
    IF KeyIndex(os, order_id) = 0 THEN None ELSE Some(os[KeyIndex(os, order_id)])

\* orders[oid] = rec
dict_set(os, oid, rec) ==
    IF KeyIndex(os, oid) = 0
    THEN Append(os, rec)
    ELSE [os EXCEPT ![KeyIndex(os, oid)] = rec]

\* the validation left out: every status passes
validate_status_skipped(order, expected_status) == None

\* validate_status: None when the status is the expected one, else the message
validate_status(order, expected_status) ==
    IF order.status # expected_status
    THEN Some(<<"Order must be '", expected_status, "', but is '", order.status, "'.">>)
    ELSE None

Fail(error) == [ok |-> FALSE, error |-> error]

(* --------------------------- order creation ---------------------------- *)

\* new_order with the uuid prefix `oid` and now() = t
new_order(os, oid, vendor_id, customer_name, customer_phone, address, items, t) ==
    dict_set(os, oid,
        [order_id |-> oid,
         vendor_id |-> vendor_id,
         customer |-> [name |-> customer_name, phone |-> customer_phone],
         address |-> address,
         items |-> items,
         status |-> PENDING,
         created_at |-> t,
         accepted_at |-> None,
         ready_at |-> None,
         assigned_at |-> None,
         delivered_at |-> None,
         paid_at |-> None,
         delivery_agent |-> None,
         payment_requested |-> FALSE,
         payment_status |-> UNREQUESTED])

(* --------------------------- lifecycle tools --------------------------- *)
\* Each tool is an operator from the store, its arguments and now() to the
\* store after the call and the returned dict.

Unchanged(os, result) == [orders |-> os, result |-> result]

\* the decision written to every pending order of the store
decide_write_status_all(os, order_id, accept) ==
    [k \in 1..Len(os) |->
        IF os[k].status = PENDING
        THEN [os[k] EXCEPT !.status = IF accept THEN ACCEPTED ELSE REJECTED]
        ELSE os[k]]

\* order_decide, lines 105 and 114: the write of the status
decide_write_status(os, order_id, accept) ==
    [os EXCEPT ![KeyIndex(os, order_id)].status = IF accept THEN ACCEPTED ELSE REJECTED]

\* accepted_at written on both branches
decide_return_stamped(os, order_id, accept, t) ==
    LET i == KeyIndex(os, order_id)
        after == [os EXCEPT ![i].accepted_at = Some(t)]
    IN  [orders |-> after,
         result |-> [ok |-> TRUE,
                     status |-> after[i].status,
                     vendor_message |->
                         <<"Order ", order_id,
                           IF accept THEN " accepted." ELSE " rejected.">>,
                     customer_message |->
                         IF accept
                         THEN <<"Your order ", order_id,
                                " is confirmed and being processed.">>
                         ELSE <<"Unfortunately, your order could not be completed.">>]]

\* order_decide, lines 106-112 and 115-120: the write of accepted_at (accept
\* only) and the returned dict, whose status is read back from the order
decide_return(os, order_id, accept, t) ==
    LET i == KeyIndex(os, order_id)
        after == IF accept THEN [os EXCEPT ![i].accepted_at = Some(t)] ELSE os
    IN  [orders |-> after,
         result |-> [ok |-> TRUE,
                     status |-> after[i].status,
                     vendor_message |->
                         <<"Order ", order_id,
                           IF accept THEN " accepted." ELSE " rejected.">>,
                     customer_message |->
                         IF accept
                         THEN <<"Your order ", order_id,
                                " is confirmed and being processed.">>
                         ELSE <<"Unfortunately, your order could not be completed.">>]]

\* a guard that lets a rejected order be decided again
decide_guard_redecide(os, order_id) ==
    LET o == get_order(os, order_id)
    IN  IF o = None THEN Some(Fail(<<"order_not_found">>))
        ELSE IF o[1].status \notin {PENDING, REJECTED}
             THEN Some(Fail(<<"Order already '", o[1].status, "'.">>))
             ELSE None

\* order_decide, the two guards: None when both pass, else the failure returned
decide_guard(os, order_id) ==
    LET o == get_order(os, order_id)
    IN  IF o = None THEN Some(Fail(<<"order_not_found">>))
        ELSE IF o[1].status # PENDING
             THEN Some(Fail(<<"Order already '", o[1].status, "'.">>))
             ELSE None

order_decide(os, order_id, accept, t) ==
    IF decide_guard(os, order_id) # None
    THEN Unchanged(os, decide_guard(os, order_id)[1])
    ELSE decide_return(decide_write_status(os, order_id, accept), order_id, accept, t)

order_ready(os, order_id, t) ==
    LET o == get_order(os, order_id)
        i == KeyIndex(os, order_id)
    IN  IF o = None THEN Unchanged(os, Fail(<<"order_not_found">>))
        ELSE IF validate_status(o[1], ACCEPTED) # None
        THEN Unchanged(os, Fail(validate_status(o[1], ACCEPTED)[1]))
        ELSE LET after == [os EXCEPT ![i].status = READY, ![i].ready_at = Some(t)]
             IN  [orders |-> after,
                  result |-> [ok |-> TRUE,
                              status |-> after[i].status,
                              vendor_message |->
                                  <<"Order ", order_id, " is ready. Choose a delivery agent.">>,
                              delivery_agent_options |->
                                  [k \in 1..Len(delivery_agents) |->
                                      [id |-> delivery_agents[k].id,
                                       name |-> delivery_agents[k].name]]]]

delivery_assign(os, order_id, agent_id, t) ==
    LET o == get_order(os, order_id)
        i == KeyIndex(os, order_id)
        agent == agents_get(agent_id)
    IN  IF o = None THEN Unchanged(os, Fail(<<"order_not_found">>))
        ELSE IF validate_status(o[1], READY) # None
        THEN Unchanged(os, Fail(validate_status(o[1], READY)[1]))
        ELSE IF agent = None THEN Unchanged(os, Fail(<<"agent_not_found">>))
        ELSE LET after == [os EXCEPT ![i].status = ASSIGNED,
                                     ![i].assigned_at = Some(t),
                                     ![i].delivery_agent = agent]
             IN  [orders |-> after,
                  result |-> [ok |-> TRUE,
                              status |-> after[i].status,
                              vendor_message |->
                                  <<"Agent ", agent[1].name, " assigned to order ",
                                    order_id, ".">>,
                              agent_instructions |->
                                  [to_agent |-> [message |->
                                      <<"Please pick up order ", order_id,
                                        " and deliver to ", o[1].customer.name,
                                        " at ", o[1].address, ".">>]]]]

\* a guard that only excludes orders not yet assigned
payment_allowed_once_assigned(order) ==
    order.status \notin {PENDING, ACCEPTED, REJECTED, READY}

\* the status check of payment_request left out
payment_allowed_always(order) == TRUE

\* a guard that refuses a payment request once the order is delivered
payment_allowed_assigned_only(order) == order.status = ASSIGNED

\* line 180: the statuses payment can be requested in
payment_allowed(order) == order.status \in {ASSIGNED, DELIVERED}

payment_request(os, order_id) ==
    LET o == get_order(os, order_id)
        i == KeyIndex(os, order_id)
    IN  IF o = None THEN Unchanged(os, Fail(<<"order_not_found">>))
        ELSE IF ~payment_allowed(o[1])
        THEN Unchanged(os,
                 Fail(<<"Can only request payment for ", ASSIGNED, " or ", DELIVERED,
                        " orders.">>))
        ELSE [orders |-> [os EXCEPT ![i].payment_status = REQUESTED],
              result |-> [ok |-> TRUE,
                          vendor_message |->
                              <<"Payment request sent for order ", order_id, ".">>]]

\* a delivery that starts the payment sub-state over
order_delivered_resets_payment(os, order_id, t) ==
    LET o == get_order(os, order_id)
        i == KeyIndex(os, order_id)
        error == IF o # None THEN validate_status(o[1], ASSIGNED)
                             ELSE Some(<<"order_not_found">>)
    IN  IF error # None THEN Unchanged(os, Fail(error[1]))
        ELSE LET after == [os EXCEPT ![i].status = DELIVERED,
                                     ![i].delivered_at = Some(t),
                                     ![i].payment_status = UNREQUESTED]
             IN  [orders |-> after,
                  result |-> [ok |-> TRUE, status |-> after[i].status]]

order_delivered(os, order_id, t) ==
    LET o == get_order(os, order_id)
        i == KeyIndex(os, order_id)
        error == IF o # None THEN validate_status(o[1], ASSIGNED)
                             ELSE Some(<<"order_not_found">>)
    IN  IF error # None THEN Unchanged(os, Fail(error[1]))
        ELSE LET after == [os EXCEPT ![i].status = DELIVERED,
                                     ![i].delivered_at = Some(t)]
             IN  [orders |-> after,
                  result |-> [ok |-> TRUE, status |-> after[i].status]]

\* the agent released when the order is paid
mark_paid_release_agent(os, i, t) ==
    [os EXCEPT ![i].payment_status = PAYMENT_PAID,
               ![i].status = PAID,
               ![i].paid_at = Some(t),
               ![i].delivery_agent = None]

\* the write of paid_at left out
mark_paid_unstamped(os, i, t) ==
    [os EXCEPT ![i].payment_status = PAYMENT_PAID,
               ![i].status = PAID]

\* the status write left out
mark_paid_payment_only(os, i, t) ==
    [os EXCEPT ![i].payment_status = PAYMENT_PAID,
               ![i].paid_at = Some(t)]

\* lines 205-207: the three writes of order_paid
mark_paid(os, i, t) ==
    [os EXCEPT ![i].payment_status = PAYMENT_PAID,
               ![i].status = PAID,
               ![i].paid_at = Some(t)]

order_paid(os, order_id, t) ==
    LET o == get_order(os, order_id)
        i == KeyIndex(os, order_id)
    IN  IF o = None \/ o[1].payment_status # REQUESTED
        THEN Unchanged(os, Fail(<<"Order not found or payment not ", REQUESTED, ".">>))
        ELSE LET after == mark_paid(os, i, t)
             IN  [orders |-> after,
                  result |-> [ok |-> TRUE, status |-> after[i].status]]

(* ------------------------------ listing -------------------------------- *)

\* a step that puts `o` in front of the elements with its own created_at
sort_insert_before_equal(sorted, o) ==
    LET k == Cardinality({j \in 1..Len(sorted) : sorted[j].created_at > o.created_at})
    IN  SubSeq(sorted, 1, k) \o <<o>> \o SubSeq(sorted, k + 1, Len(sorted))

\* one step of the sort: `o` goes behind every element whose created_at is
\* at least its own, so elements with equal keys keep their order
sort_insert(sorted, o) ==
    LET k == Cardinality({j \in 1..Len(sorted) : sorted[j].created_at >= o.created_at})
    IN  SubSeq(sorted, 1, k) \o <<o>> \o SubSeq(sorted, k + 1, Len(sorted))

\* result.sort(key=lambda x: x["created_at"], reverse=True): stable
RECURSIVE sort_created_at_reverse(_)
sort_created_at_reverse(result) ==
    IF result = <<>> THEN <<>>
    ELSE sort_insert(sort_created_at_reverse(SubSeq(result, 1, Len(result) - 1)),
                     result[Len(result)])

\* `if status_filter:` is taken for a non-empty string
truthy(status_filter) == status_filter # None /\ status_filter[1] # ""

\* a listing that sorts the store itself and leaves it sorted
orders_list_sorts_store(os, vendor_id, status_filter) ==
    LET stored == sort_created_at_reverse(os)
        by_vendor == SelectSeq(stored, LAMBDA o : o.vendor_id = vendor_id)
        result == IF truthy(status_filter)
                  THEN SelectSeq(by_vendor, LAMBDA o : o.status = status_filter[1])
                  ELSE by_vendor
    IN  [orders |-> stored,
         result |-> [orders |-> result, count |-> Len(result)]]

orders_list(os, vendor_id, status_filter) ==
    LET by_vendor == SelectSeq(os, LAMBDA o : o.vendor_id = vendor_id)
        result == IF truthy(status_filter)
                  THEN SelectSeq(by_vendor, LAMBDA o : o.status = status_filter[1])
                  ELSE by_vendor
        sorted == sort_created_at_reverse(result)
    IN  [orders |-> os,
         result |-> [orders |-> sorted, count |-> Len(sorted)]]

(* ------------------------------ state ---------------------------------- *)

\* now()
now == clock

IdleCall == [pc |-> "idle", order_id |-> "", accept |-> FALSE, result |-> None]

\* module import: the empty dict, then the two seed orders (lines 73-76)
Init ==
    /\ \E id1 \in UuidPrefixes, id2 \in UuidPrefixes, t2 \in 1..MaxClock :
            /\ orders = new_order(
                            new_order(<<>>, id1, "vendor_1", "Neha", "919876500001",
                                      "221B Baker St", <<[sku |-> "chai", qty |-> 2]>>, 1),
                            id2, "vendor_1", "Arjun", "919876500002",
                            "MG Road, BLR", <<[sku |-> "samosa", qty |-> 6]>>, t2)
            /\ clock = t2
    /\ last = [op |-> "import", order_id |-> "", args |-> <<>>, result |-> None]
    /\ calls = [c \in Callers |-> IdleCall]
    /\ ncreated = 0

\* a tool call that runs from its first line to its return
Call(op, order_id, args, out) ==
    /\ orders' = out.orders
    /\ last' = [op |-> op, order_id |-> order_id, args |-> args, result |-> out.result]
    /\ UNCHANGED <<clock, calls, ncreated>>

\* time.time() moves on to the next second
Tick ==
    /\ clock < MaxClock
    /\ clock' = clock + 1
    /\ UNCHANGED <<orders, last, calls, ncreated>>

\* a call of new_order by an ingestion path, after the import
NewOrder ==
    \E oid \in UuidPrefixes, a \in NewOrderArgs :
        /\ ncreated < MaxNewOrders
        /\ ncreated' = ncreated + 1
        /\ orders' = new_order(orders, oid, a[1], "Kiran", "919876500003",
                               "12 Park Lane", a[2], now)
        /\ last' = [op |-> "new_order", order_id |-> oid, args |-> a, result |-> oid]
        /\ UNCHANGED <<clock, calls>>

OrdersList ==
    \E vendor_id \in VendorIdArgs, status_filter \in StatusFilterArgs :
        Call("orders_list", "", <<vendor_id, status_filter>>,
             orders_list(orders, vendor_id, status_filter))

OrderDecide ==
    \E order_id \in OrderIdArgs, accept \in BOOLEAN :
        Call("order_decide", order_id, <<accept>>,
             order_decide(orders, order_id, accept, now))

OrderReady ==
    \E order_id \in OrderIdArgs :
        Call("order_ready", order_id, <<>>, order_ready(orders, order_id, now))

DeliveryAssign ==
    \E order_id \in OrderIdArgs, agent_id \in AgentIdArgs :
        Call("delivery_assign", order_id, <<agent_id>>,
             delivery_assign(orders, order_id, agent_id, now))

PaymentRequest ==
    \E order_id \in OrderIdArgs :
        Call("payment_request", order_id, <<>>, payment_request(orders, order_id))

OrderDelivered ==
    \E order_id \in OrderIdArgs :
        Call("order_delivered", order_id, <<>>, order_delivered(orders, order_id, now))

OrderPaid ==
    \E order_id \in OrderIdArgs :
        Call("order_paid", order_id, <<>>, order_paid(orders, order_id, now))

\* the server: the lifecycle tools registered with mcp, called one at a time
Next ==
    \/ Tick
    \/ OrderDecide
    \/ OrderReady
    \/ DeliveryAssign
    \/ PaymentRequest
    \/ OrderDelivered
    \/ OrderPaid

Spec == Init /\ [][Next]_vars

\* order_decide called by two callers whose calls interleave between the
\* guards (lines 99-103), the write of the status and the rest of the call
DecideBegin(c) ==
    \E order_id \in OrderIdArgs, accept \in BOOLEAN :
        /\ calls[c].pc = "idle"
        /\ calls' = [calls EXCEPT ![c] =
                IF decide_guard(orders, order_id) # None
                THEN [pc |-> "idle", order_id |-> order_id, accept |-> accept,
                      result |-> decide_guard(orders, order_id)]
                ELSE [pc |-> "write_status", order_id |-> order_id, accept |-> accept,
                      result |-> None]]
        /\ UNCHANGED <<orders, clock, last, ncreated>>

DecideWriteStatus(c) ==
    /\ calls[c].pc = "write_status"
    /\ orders' = decide_write_status(orders, calls[c].order_id, calls[c].accept)
    /\ calls' = [calls EXCEPT ![c].pc = "return"]
    /\ UNCHANGED <<clock, last, ncreated>>

DecideReturn(c) ==
    /\ calls[c].pc = "return"
    /\ LET out == decide_return(orders, calls[c].order_id, calls[c].accept, now)
       IN  /\ orders' = out.orders
           /\ calls' = [calls EXCEPT ![c].pc = "idle", ![c].result = Some(out.result)]
    /\ UNCHANGED <<clock, last, ncreated>>

NextConc ==
    \/ Tick
    \/ \E c \in Callers : DecideBegin(c)
    \/ \E c \in Callers : DecideWriteStatus(c)
    \/ \E c \in Callers : DecideReturn(c)

SpecConc == Init /\ [][NextConc]_vars

\* the store with new_order callable after the import as well
NextStore ==
    \/ Next
    \/ NewOrder

SpecStore == Init /\ [][NextStore]_vars

\* the listing tool on a store that grows and whose orders are decided: the
\* fields orders_list reads (vendor_id, status, created_at) and the dict
\* order all vary
NextList ==
    \/ Tick
    \/ NewOrder
    \/ OrderDecide
    \/ OrdersList

SpecList == Init /\ [][NextList]_vars

(* ======================================================================= *)
(* Properties                                                              *)
(* ======================================================================= *)

StatusOps == {"order_decide", "order_ready", "delivery_assign", "order_delivered",
              "order_paid"}
LifecycleOps == StatusOps \cup {"payment_request"}

\* this step is a call of the tool `op` (time does not move during a call)
Called(op) == clock' = clock /\ last'.op = op
CalledAny(ops) == clock' = clock /\ last'.op \in ops
\* the order the call of this step targets, before and after the call
Target == get_order(orders, last'.order_id)
TargetAfter == get_order(orders', last'.order_id)

StatusEdges ==
    {<<PENDING, ACCEPTED>>, <<PENDING, REJECTED>>, <<ACCEPTED, READY>>,
     <<READY, ASSIGNED>>, <<ASSIGNED, DELIVERED>>}

\* the status and payment_status a status-changing tool may be applied in
OnGraph(op, o) ==
    CASE op = "order_decide" -> o.status = PENDING
      [] op = "order_ready" -> o.status = ACCEPTED
      [] op = "delivery_assign" -> o.status = READY
      [] op = "order_delivered" -> o.status = ASSIGNED
      [] op = "order_paid" ->
            o.status \in {ASSIGNED, DELIVERED} /\ o.payment_status = REQUESTED

C1_Step ==
    /\ Len(orders') = Len(orders)
    /\ \A i \in 1..Len(orders) :
         orders'[i].status # orders[i].status =>
            \/ <<orders[i].status, orders'[i].status>> \in StatusEdges
            \/ /\ orders'[i].status = PAID
               /\ orders[i].status \in {ASSIGNED, DELIVERED}
               /\ orders[i].payment_status = REQUESTED
    /\ (CalledAny(StatusOps) /\ Target # None) =>
         (~OnGraph(last'.op, Target[1]) =>
            /\ ~last'.result.ok
            /\ TargetAfter[1].status = Target[1].status)

\* C1: in every call of a lifecycle tool the status of every order changes
\* only along Pending->Accepted, Pending->Rejected, Accepted->Ready,
\* Ready->Assigned, Assigned->Delivered, or from Assigned/Delivered with
\* payment_status Requested to Paid; a status-changing tool called on an
\* order that is not at the source of its edge (a second order_decide, say)
\* returns ok = False and leaves the status as it was.
C1_StatusFollowsGraph == [][C1_Step]_vars

\* a second order_decide on an order already accepted or rejected has failed
C1_Witness ==
    /\ last.op = "order_decide"
    /\ ~last.result.ok
    /\ get_order(orders, last.order_id) # None
    /\ get_order(orders, last.order_id)[1].status \in {ACCEPTED, REJECTED}

\* C2: of two order_decide calls made by different callers on the same
\* order, whose steps (guards, status write, timestamp write and return)
\* interleave, at most one returns ok = True; so the two callers are never
\* told "accepted" and "rejected" for one order.
C2_AtMostOneDecideSucceeds ==
    \A c1 \in Callers, c2 \in Callers :
        (/\ c1 # c2
         /\ calls[c1].pc = "idle" /\ calls[c1].result # None
         /\ calls[c2].pc = "idle" /\ calls[c2].result # None
         /\ calls[c1].order_id = calls[c2].order_id)
        => ~(calls[c1].result[1].ok /\ calls[c2].result[1].ok)

TimestampFields == {"accepted_at", "ready_at", "assigned_at", "delivered_at", "paid_at"}

\* this step is the successful call on order `o` of the transition that
\* stamps field `f`
Transition(f, o) ==
    /\ clock' = clock
    /\ last'.order_id = o.order_id
    /\ last'.result.ok
    /\ CASE f = "accepted_at" -> last'.op = "order_decide" /\ last'.args = <<TRUE>>
         [] f = "ready_at" -> last'.op = "order_ready"
         [] f = "assigned_at" -> last'.op = "delivery_assign"
         [] f = "delivered_at" -> last'.op = "order_delivered"
         [] f = "paid_at" -> last'.op = "order_paid"

AllUnset(o) == \A f \in TimestampFields : o[f] = None

C3_Step ==
    /\ Len(orders') = Len(orders)
    /\ \A i \in 1..Len(orders) : \A f \in TimestampFields :
         IF Transition(f, orders[i])
         THEN orders[i][f] = None /\ orders'[i][f] = Some(now)
         ELSE orders'[i][f] = orders[i][f]

\* C3: accepted_at, ready_at, assigned_at, delivered_at and paid_at are None
\* in every order new_order has just stored; each becomes set (to now()) in
\* exactly the steps where its transition (accept, order_ready,
\* delivery_assign, order_delivered, order_paid) succeeds on that order; and
\* a timestamp that is set keeps its value in every later step.
C3_TimestampsSetOnce ==
    /\ \A i \in 1..Len(orders) : AllUnset(orders[i])
    /\ [][C3_Step]_vars

\* an order that went through all five transitions, each stamped
C3_Witness ==
    \E i \in 1..Len(orders) :
        /\ \A f \in TimestampFields : orders[i][f] # None
        /\ orders[i].accepted_at # orders[i].paid_at

C4_Step ==
    /\ Len(orders') = Len(orders)
    /\ \A i \in 1..Len(orders) :
         LET a == orders[i].payment_status
             b == orders'[i].payment_status
         IN  /\ (a = UNREQUESTED /\ b = REQUESTED) =>
                    /\ orders[i].status \in {ASSIGNED, DELIVERED}
                    /\ orders'[i].status \in {ASSIGNED, DELIVERED}
             /\ (a # PAYMENT_PAID /\ b = PAYMENT_PAID) => a = REQUESTED
             /\ a = PAYMENT_PAID => b = PAYMENT_PAID
             /\ a = REQUESTED => b # UNREQUESTED

\* C4: payment_status goes from Unrequested to Requested only in a step in
\* which the order's status is Assigned or Delivered, becomes Paid only from
\* Requested, and never goes back (Paid stays Paid, Requested never becomes
\* Unrequested).
C4_PaymentStatusForward == [][C4_Step]_vars

\* a payment requested and then confirmed
C4_Witness ==
    /\ last.op = "order_paid"
    /\ last.result.ok
    /\ get_order(orders, last.order_id)[1].payment_status = PAYMENT_PAID

C5_Step ==
    (Called("order_paid") /\ Target # None) =>
        /\ last'.result.ok <=> Target[1].payment_status = REQUESTED
        /\ last'.result.ok =>
              /\ TargetAfter[1].payment_status = PAYMENT_PAID
              /\ TargetAfter[1].status = PAID
              /\ Target[1].paid_at = None
              /\ TargetAfter[1].paid_at = Some(now)
        /\ ~last'.result.ok => orders' = orders

\* C5: order_paid on a stored order returns ok = True exactly when the
\* order's payment_status is Requested at the call; then payment_status and
\* status are both Paid and paid_at is set after the call; when it returns
\* ok = False the store is as before.
C5_ConfirmPayment == [][C5_Step]_vars

\* order_paid has succeeded on an order that was delivered
C5_Witness ==
    /\ last.op = "order_paid"
    /\ last.result.ok
    /\ get_order(orders, last.order_id)[1].delivered_at # None

C6_Step ==
    /\ Len(orders') = Len(orders)
    /\ \A i \in 1..Len(orders) :
         orders[i].status \in {REJECTED, PAID} =>
            /\ orders'[i].status = orders[i].status
            /\ orders'[i].payment_status = orders[i].payment_status
            /\ (CalledAny(LifecycleOps) /\ last'.order_id = orders[i].order_id)
                  => ~last'.result.ok

\* C6: once an order's status is Rejected or Paid, every call of
\* order_decide, order_ready, delivery_assign, order_delivered,
\* payment_request or order_paid on it returns ok = False, and its status
\* and payment_status never change again.
C6_TerminalStates == [][C6_Step]_vars

\* a payment request has failed on a paid order
C6_Witness ==
    /\ last.op = "payment_request"
    /\ ~last.result.ok
    /\ get_order(orders, last.order_id) # None
    /\ get_order(orders, last.order_id)[1].status = PAID

C7_Step ==
    /\ (CalledAny(LifecycleOps) /\ ~last'.result.ok) => orders' = orders
    /\ (/\ Called("delivery_assign")
        /\ Target # None
        /\ Target[1].status = READY
        /\ \A k \in 1..Len(delivery_agents) :
              delivery_agents[k].id # last'.args[1])
       => /\ ~last'.result.ok
          /\ last'.result.error = <<"agent_not_found">>
          /\ TargetAfter[1].status = READY
          /\ TargetAfter[1].delivery_agent = None
          /\ TargetAfter[1].assigned_at = None

\* C7: a lifecycle tool call that returns ok = False (unknown order id,
\* wrong status or payment_status, unknown agent id) leaves the whole store
\* as it was; delivery_assign with an agent id that is not in
\* delivery_agents on a Ready order returns the error "agent_not_found" and
\* the order stays Ready with no delivery_agent and no assigned_at.
C7_FailureChangesNothing == [][C7_Step]_vars

\* delivery_assign with an unknown agent has failed on a Ready order
C7_Witness ==
    /\ last.op = "delivery_assign"
    /\ last.args = <<"unknown_agent">>
    /\ ~last.result.ok
    /\ last.result.error = <<"agent_not_found">>
    /\ get_order(orders, last.order_id) # None
    /\ get_order(orders, last.order_id)[1].status = READY

\* this step is a call of new_order
NewOrderStep == ncreated' = ncreated + 1

C8_Step ==
    /\ Len(orders') >= Len(orders)
    /\ \A i \in 1..Len(orders) : orders'[i].order_id = orders[i].order_id
    /\ NewOrderStep =>
         /\ get_order(orders, last'.result) = None
         /\ Len(orders') = Len(orders) + 1
         /\ orders'[Len(orders')].order_id = last'.result
         /\ orders'[Len(orders')].status = PENDING
         /\ \A i \in 1..Len(orders) : orders'[i] = orders[i]

\* C8: new_order stores exactly one more order, Pending, under an id that
\* was not in the store, and leaves every order already stored as it was; no
\* step removes a stored order or puts another order under its id.
C8_CreateAddsFreshOrder == [][C8_Step]_vars

\* C9: every stored order has a non-empty items sequence (new_order called
\* with an empty items sequence stores nothing).
C9_ItemsNonEmpty == \A i \in 1..Len(orders) : orders[i].items # <<>>

\* C10: a lifecycle tool called with an order id that is not in the store
\* returns the error "order_not_found", whichever tool it is, and returns
\* another error when the order exists and its status or payment_status is
\* not the one the tool needs.
C10_UniformNotFound ==
    last.op \in LifecycleOps =>
        /\ get_order(orders, last.order_id) = None =>
              (~last.result.ok /\ last.result.error = <<"order_not_found">>)
        /\ (get_order(orders, last.order_id) # None /\ ~last.result.ok) =>
              last.result.error # <<"order_not_found">>

\* the state(s) a tool needs the order to be in, and the state it looks at
ExpectedStates(op) ==
    CASE op = "order_decide" -> {PENDING}
      [] op = "order_ready" -> {ACCEPTED}
      [] op = "delivery_assign" -> {READY}
      [] op = "order_delivered" -> {ASSIGNED}
      [] op = "payment_request" -> {ASSIGNED, DELIVERED}
      [] op = "order_paid" -> {REQUESTED}
ActualState(op, o) == IF op = "order_paid" THEN o.payment_status ELSE o.status
\* the message has the state as one of its parts
Names(msg, state) == \E k \in 1..Len(msg) : msg[k] = state

\* C11: when order_decide, order_ready, delivery_assign, order_delivered,
\* payment_request or order_paid returns ok = False on a stored order whose
\* status (payment_status for order_paid) is not the one the tool needs, the
\* error names every state the tool accepts and the state the order is in.
C11_ErrorNamesBothStates ==
    (/\ last.op \in LifecycleOps
     /\ get_order(orders, last.order_id) # None
     /\ ~last.result.ok
     /\ ActualState(last.op, get_order(orders, last.order_id)[1])
            \notin ExpectedStates(last.op))
    => /\ \A e \in ExpectedStates(last.op) : Names(last.result.error, e)
       /\ Names(last.result.error,
                ActualState(last.op, get_order(orders, last.order_id)[1]))

\* the order is one a call of orders_list with arguments `a` asks for
Matches(o, a) == o.vendor_id = a[1] /\ (a[2] # None => o.status = a[2][1])

C13_Step ==
    Target # None =>
        /\ (Called("order_decide") /\ last'.args = <<TRUE>> /\ Target[1].status = PENDING)
              => /\ last'.result.ok
                 /\ TargetAfter[1].status = ACCEPTED
                 /\ TargetAfter[1].accepted_at # None
        /\ (Called("order_ready") /\ Target[1].status = ACCEPTED)
              => /\ last'.result.ok
                 /\ TargetAfter[1].status = READY
                 /\ Len(last'.result.delivery_agent_options) > 0
        /\ (/\ Called("delivery_assign")
            /\ Target[1].status = READY
            /\ \E k \in 1..Len(delivery_agents) : delivery_agents[k].id = last'.args[1])
              => /\ last'.result.ok
                 /\ TargetAfter[1].status = ASSIGNED
        /\ (Called("order_delivered") /\ Target[1].status = ASSIGNED)
              => /\ last'.result.ok
                 /\ TargetAfter[1].status = DELIVERED
        /\ (Called("payment_request") /\ Target[1].status = DELIVERED)
              => /\ last'.result.ok
                 /\ TargetAfter[1].status = DELIVERED
                 /\ TargetAfter[1].payment_status = REQUESTED
        /\ (/\ Called("order_paid")
            /\ Target[1].status = DELIVERED
            /\ Target[1].payment_status = REQUESTED)
              => /\ last'.result.ok
                 /\ TargetAfter[1].status = PAID
                 /\ TargetAfter[1].payment_status = PAYMENT_PAID

\* C13: every order starts Pending, and each step of the sequence
\* order_decide(accept), order_ready, delivery_assign(an agent id of
\* delivery_agents), order_delivered, payment_request, order_paid returns
\* ok = True when the order is where the step before left it, taking the
\* status to Accepted, Ready (with a non-empty delivery_agent_options),
\* Assigned, Delivered, then payment_status to Requested, and at last status
\* and payment_status to Paid.
C13_HappyPath ==
    /\ \A i \in 1..Len(orders) :
          orders[i].status = PENDING /\ orders[i].payment_status = UNREQUESTED
    /\ [][C13_Step]_vars

\* the whole sequence has run on an order: order_paid has just succeeded on
\* it, it is Paid, and every timestamp and the agent called with are set
C13_Witness ==
    /\ last.op = "order_paid"
    /\ last.result.ok
    /\ LET o == get_order(orders, last.order_id)[1]
       IN  /\ o.status = PAID
           /\ o.payment_status = PAYMENT_PAID
           /\ \A f \in TimestampFields : o[f] # None
           /\ o.delivery_agent # None
           /\ o.delivery_agent[1].id \in AgentIdArgs

C14_Step ==
    CalledAny(LifecycleOps) =>
        /\ Len(orders') = Len(orders)
        /\ \A i \in 1..Len(orders) :
              orders[i].order_id # last'.order_id => orders'[i] = orders[i]
        /\ last'.op = "order_ready" /\ last'.result.ok =>
              last'.result.delivery_agent_options =
                  [k \in 1..Len(delivery_agents) |->
                      [id |-> delivery_agents[k].id, name |-> delivery_agents[k].name]]

\* C14: a call of a lifecycle tool with order id X, whether it returns
\* ok = True or ok = False, leaves every stored order whose id is not X as it
\* was and stores no further order; delivery_agents is never written (it is
\* a constant of the model), so order_ready lists the same agents in every
\* state.
C14_OtherOrdersUntouched == [][C14_Step]_vars

\* a tool has succeeded on one order while the other stored order is past
\* Pending too
C14_Witness ==
    /\ last.op \in LifecycleOps
    /\ last.result.ok
    /\ Len(orders) = 2
    /\ \A i \in 1..Len(orders) : orders[i].status \notin {PENDING, REJECTED}
    /\ orders[1].status # orders[2].status

C15_Step ==
    /\ Len(orders') = Len(orders)
    /\ \A i \in 1..Len(orders) :
         IF Transition("assigned_at", orders[i])
         THEN /\ orders[i].delivery_agent = None
              /\ orders'[i].delivery_agent # None
              /\ orders'[i].delivery_agent[1].id = last'.args[1]
              /\ \E k \in 1..Len(delivery_agents) :
                    delivery_agents[k] = orders'[i].delivery_agent[1]
         ELSE orders'[i].delivery_agent = orders[i].delivery_agent

\* C15: delivery_agent is None in every order new_order has just stored; it
\* changes in exactly the steps where delivery_assign succeeds on the order,
\* from None to the entry of delivery_agents whose id is the agent_id of the
\* call, and keeps that value in every later step; in every state
\* delivery_agent is set exactly when assigned_at is set.
C15_AssignedAgent ==
    /\ \A i \in 1..Len(orders) : orders[i].delivery_agent = None
    /\ [][C15_Step]_vars
    /\ [](\A i \in 1..Len(orders) :
            orders[i].delivery_agent # None <=> orders[i].assigned_at # None)

\* delivery_assign has just stored the agent it was called with
C15_Witness ==
    /\ last.op = "delivery_assign"
    /\ last.result.ok
    /\ LET o == get_order(orders, last.order_id)[1]
       IN  /\ o.delivery_agent # None
           /\ o.delivery_agent[1].id = last.args[1]
           /\ o.assigned_at = Some(now)

C16_Step ==
    /\ (Called("payment_request") /\ Target # None /\ last'.result.ok) =>
          TargetAfter[1] = [Target[1] EXCEPT !.payment_status = REQUESTED]
    /\ (Called("order_delivered") /\ Target # None /\ last'.result.ok) =>
          /\ Target[1].status = ASSIGNED
          /\ TargetAfter[1] = [Target[1] EXCEPT !.status = DELIVERED,
                                                !.delivered_at = Some(now)]
          /\ Target[1].payment_status = REQUESTED =>
                TargetAfter[1].payment_status = REQUESTED

\* C16: a successful payment_request leaves every field of the order but
\* payment_status as it was (status, the timestamps and delivery_agent
\* among them); a successful order_delivered is on an Assigned order and
\* changes only status and delivered_at; so a payment_status Requested while
\* Assigned is still Requested once the order is Delivered.
C16_PaymentIndependent == [][C16_Step]_vars

\* an order has been delivered after its payment was requested
C16_Witness ==
    /\ last.op = "order_delivered"
    /\ last.result.ok
    /\ get_order(orders, last.order_id)[1].status = DELIVERED
    /\ get_order(orders, last.order_id)[1].payment_status = REQUESTED

\* C17: in every state and for every stored order, status is Paid exactly
\* when payment_status is Paid, and exactly when paid_at is set.
C17_PaidTogether ==
    \A i \in 1..Len(orders) :
        /\ orders[i].status = PAID <=> orders[i].payment_status = PAYMENT_PAID
        /\ orders[i].status = PAID <=> orders[i].paid_at # None

\* one order is Paid with paid_at set while the payment of the other is
\* requested and not yet confirmed
C17_Witness ==
    \E i \in 1..Len(orders), j \in 1..Len(orders) :
        /\ orders[i].status = PAID
        /\ orders[i].paid_at # None
        /\ orders[j].payment_status = REQUESTED
        /\ orders[j].paid_at = None

BeforeAssign == {PENDING, ACCEPTED, READY, REJECTED}

\* C18: in every state an order whose payment_status is Requested or Paid
\* has assigned_at, delivery_agent, accepted_at and ready_at set and a status
\* past Ready; and a payment_request or order_paid called on a Pending,
\* Accepted, Ready or Rejected order has returned ok = False and left its
\* payment_status Unrequested.
C18_PaymentOnlyAfterAssign ==
    /\ \A i \in 1..Len(orders) :
          orders[i].payment_status \in {REQUESTED, PAYMENT_PAID} =>
             /\ orders[i].assigned_at # None
             /\ orders[i].delivery_agent # None
             /\ orders[i].accepted_at # None
             /\ orders[i].ready_at # None
             /\ orders[i].status \notin BeforeAssign
    /\ (/\ last.op \in {"payment_request", "order_paid"}
        /\ get_order(orders, last.order_id) # None
        /\ get_order(orders, last.order_id)[1].status \in BeforeAssign)
       => /\ ~last.result.ok
          /\ get_order(orders, last.order_id)[1].payment_status = UNREQUESTED

\* payment_request has failed on an order that is still Pending
C18_Witness ==
    /\ last.op = "payment_request"
    /\ ~last.result.ok
    /\ get_order(orders, last.order_id) # None
    /\ get_order(orders, last.order_id)[1].status = PENDING

\* C19: in every state and for every stored order, payment_requested is
\* True exactly when payment_status is Requested or Paid.
C19_PaymentRequestedFlag ==
    \A i \in 1..Len(orders) :
        orders[i].payment_requested <=>
            orders[i].payment_status \in {REQUESTED, PAYMENT_PAID}

\* C20: a call of orders_list, with or without a status filter and whether
\* or not an order matches, leaves the store as it was: the same orders in
\* the same places with every field unchanged.
C20_ListChangesNothing == [][Called("orders_list") => orders' = orders]_vars

\* orders_list with the filter 'pending' has returned one of the two stored
\* orders
C20_Witness ==
    /\ last.op = "orders_list"
    /\ last.args[2] = Some(PENDING)
    /\ last.result.count = 1
    /\ Len(orders) = 2

====
